---- MODULE Spec2Model ----
(***************************************************************************)
(* Model of the indexed-log data store of the revision store               *)
(* (lib/revisionstore/src/indexedlogdatastore.rs) and of the Python        *)
(* binding layer that fronts it (bindings/src/revisionstore/mod.rs): the   *)
(* store metrics, the repack functions and the pack objects.               *)
(*                                                                         *)
(* Log entries are kept as byte sequences, exactly as write_to_log lays    *)
(* them out, and every read goes through the cursor-based parser of        *)
(* from_log.  Abstract records of what was passed to add are kept next to  *)
(* the bytes (durableRecs, pendingRecs) so that the properties can compare *)
(* what was written with what is read back.                                *)
(***************************************************************************)
EXTENDS Integers, Sequences, FiniteSets, TLC

(***************************************************************************)
(* Bounds of the model.                                                    *)
(***************************************************************************)
MaxAdds == 2
MaxProbe == 2
MaxCorrupt == 1
MaxAppends == 5
MaxDirents == 3
MaxPacks == 2
MaxCandidates == 6
MaxDoublings == 5
max_log_count == 2
max_bytes_per_log == 100

(***************************************************************************)
(* Option and Fallible values.                                             *)
(***************************************************************************)
None == <<>>
Some(x) == <<x>>

Ok(v) == [ok |-> TRUE, val |-> v]
Err(kind) == [ok |-> FALSE, kind |-> kind]

(***************************************************************************)
(* Byte-level helpers: big-endian integers and cursor reads.  A read past  *)
(* the end of the buffer is an UnexpectedEof error, as with io::Cursor.    *)
(***************************************************************************)
NodeLen == 20
Huge == 2 ^ 30

U16(n) == n % 65536
U16BE(n) == << (n \div 256) % 256, n % 256 >>
U64BE(n) == << 0, 0, 0, 0, (n \div 16777216) % 256, (n \div 65536) % 256,
               (n \div 256) % 256, n % 256 >>
U32LE(n) == << n % 256, (n \div 256) % 256, (n \div 65536) % 256,
               (n \div 16777216) % 256 >>

Slice(buf, from, len) == [i \in 1..len |-> buf[from + i]]

ReadU16(buf, pos) ==
    IF pos + 2 > Len(buf) THEN Err("Io")
    ELSE Ok(buf[pos + 1] * 256 + buf[pos + 2])

ReadU64(buf, pos) ==
    IF pos + 8 > Len(buf) THEN Err("Io")
    ELSE IF \E i \in 1..4 : buf[pos + i] # 0 \/ buf[pos + 5] >= 64
         THEN Ok(Huge)
         ELSE Ok(buf[pos + 5] * 16777216 + buf[pos + 6] * 65536
                 + buf[pos + 7] * 256 + buf[pos + 8])

ReadU32LE(buf, pos) ==
    IF buf[pos + 4] >= 64 THEN Huge
    ELSE buf[pos + 1] + buf[pos + 2] * 256 + buf[pos + 3] * 65536
         + buf[pos + 4] * 16777216

(***************************************************************************)
(* Metadata: an ordered list of (tag, value) attributes, serialized as a   *)
(* version byte 0, then tag / u16 length / value triples, then tag 0.      *)
(***************************************************************************)
RECURSIVE MetadataPairs(_)
MetadataPairs(m) ==
    IF m = <<>> THEN <<>>
    ELSE << Head(m).tag >> \o U16BE(U16(Len(Head(m).value))) \o Head(m).value
         \o MetadataPairs(Tail(m))

MetadataWrite(m) == << 0 >> \o MetadataPairs(m) \o << 0 >>

RECURSIVE MetadataReadPairs(_, _, _)
MetadataReadPairs(buf, pos, acc) ==
    IF pos + 1 > Len(buf) THEN Err("Io")
    ELSE IF buf[pos + 1] = 0 THEN Ok([metadata |-> acc, pos |-> pos + 1])
    ELSE LET len == ReadU16(buf, pos + 1) IN
         IF ~len.ok THEN len
         ELSE IF pos + 3 + len.val > Len(buf) THEN Err("Io")
         ELSE MetadataReadPairs(buf, pos + 3 + len.val,
                  Append(acc, [tag |-> buf[pos + 1],
                               value |-> Slice(buf, pos + 3, len.val)]))

MetadataRead(buf, pos) ==
    IF pos + 1 > Len(buf) THEN Err("Io")
    ELSE IF buf[pos + 1] # 0 THEN Err("Parse")
    ELSE MetadataReadPairs(buf, pos + 1, <<>>)

(***************************************************************************)
(* LZ4 with the python frame: a little-endian u32 holding the length of    *)
(* the raw data, followed by one LZ4 block.  For the short payloads of the *)
(* model a block is a single literal run: a token whose high nibble is the *)
(* literal count, then the literals.                                       *)
(***************************************************************************)
compress(raw) == U32LE(Len(raw)) \o << 16 * Len(raw) >> \o raw

decompress(data) ==
    IF Len(data) < 5 THEN Err("Lz4")
    ELSE LET n == ReadU32LE(data, 0)
             token == data[5]
             lit == token \div 16
         IN IF token % 16 # 0 \/ lit = 15 THEN Err("Lz4")
            ELSE IF Len(data) # 5 + lit \/ lit # n THEN Err("Lz4")
            ELSE Ok(Slice(data, 5, lit))

(***************************************************************************)
(* Inputs of the model: two paths, two nodes, two payloads, two metadata.  *)
(***************************************************************************)
Node1 == [i \in 1..NodeLen |-> 1]
Node2 == [i \in 1..NodeLen |-> 2]
PathA == << 97 >>
PathB == << 98 >>
Key(path, node) == [path |-> path, node |-> node]
KeyA1 == Key(PathA, Node1)
KeyB1 == Key(PathB, Node1)
KeyA2 == Key(PathA, Node2)
KeyB2 == Key(PathB, Node2)
AddKeys == {KeyA1, KeyB1, KeyA2}
Keys == {KeyA1, KeyB1, KeyA2, KeyB2}
Datas == { << 1, 2, 3, 4 >>, << 9 >> }
MetaDefault == <<>>
MetaSize == << [tag |-> 1, value |-> << 4 >>] >>
Metadatas == {MetaDefault, MetaSize}
Bases == {None, Some(KeyA1)}
Deltas == [key : AddKeys, base : Bases, data : Datas]
Handles == {"w", "r"}
Writers == {"w"}

VARIABLES disk, isOpen, synced, dirty, durableRecs, pendingRecs, corruptions,
          last, shards, shardRecs, dirents, packs, cell

vars == << disk, isOpen, synced, dirty, durableRecs, pendingRecs, corruptions,
           last, shards, shardRecs, dirents, packs, cell >>

\* The state of one store of the log seen through handles, and the state of
\* the rest: the rotating shards, the pack directory and the Python objects.
logVars == << disk, isOpen, synced, dirty, durableRecs, pendingRecs,
              corruptions >>
otherVars == << shards, shardRecs, dirents, packs, cell >>

(***************************************************************************)
(* The rotating log as a handle sees it: the entries that were on disk     *)
(* when the handle last opened or flushed, then its own buffered appends.  *)
(* lookup(0, node) yields the entries whose first NodeLen bytes are the    *)
(* node, the most recently appended first (indexedlog iterates a lookup    *)
(* in reverse insertion order); from_log takes the first of them.          *)
(***************************************************************************)
Log(h) == SubSeq(disk, 1, synced[h]) \o dirty[h]

IndexMatches(buf, node) ==
    Len(buf) >= NodeLen /\ \A i \in 1..NodeLen : buf[i] = node[i]

lookup(log, node) ==
    LET newestFirst == [i \in 1..Len(log) |-> Len(log) + 1 - i]
        hits == SelectSeq(newestFirst, LAMBDA i : IndexMatches(log[i], node))
    IN [j \in 1..Len(hits) |-> log[hits[j]]]

(***************************************************************************)
(* Entry                                                                   *)
(***************************************************************************)
EntryNew(key, content, metadata) ==
    [key |-> key, content |-> Some(content), metadata |-> metadata,
     compressed_content |-> None]

from_log_without_path_skip(key, log) ==
    LET log_entry == lookup(log, key.node) IN
    IF log_entry = <<>> THEN Err("KeyError")
    ELSE LET buf == log_entry[1]
             name_len == ReadU16(buf, NodeLen)
         IN IF ~name_len.ok THEN name_len
            ELSE LET m == MetadataRead(buf, NodeLen + 2) IN
                 IF ~m.ok THEN m
                 ELSE LET compressed_len == ReadU64(buf, m.val.pos) IN
                      IF ~compressed_len.ok THEN compressed_len
                      ELSE IF m.val.pos + 8 + compressed_len.val > Len(buf)
                           THEN Err("Io")
                           ELSE Ok([key |-> key, content |-> None,
                                    compressed_content |->
                                        Some(Slice(buf, m.val.pos + 8,
                                                   compressed_len.val)),
                                    metadata |-> m.val.metadata])

from_log_oldest_entry(key, log) ==
    LET log_entry == lookup(log, key.node) IN
    IF log_entry = <<>> THEN Err("KeyError")
    ELSE LET buf == log_entry[Len(log_entry)]
             name_len == ReadU16(buf, NodeLen)
         IN IF ~name_len.ok THEN name_len
            ELSE LET m == MetadataRead(buf, NodeLen + 2 + name_len.val) IN
                 IF ~m.ok THEN m
                 ELSE LET compressed_len == ReadU64(buf, m.val.pos) IN
                      IF ~compressed_len.ok THEN compressed_len
                      ELSE IF m.val.pos + 8 + compressed_len.val > Len(buf)
                           THEN Err("Io")
                           ELSE Ok([key |-> key, content |-> None,
                                    compressed_content |->
                                        Some(Slice(buf, m.val.pos + 8,
                                                   compressed_len.val)),
                                    metadata |-> m.val.metadata])

from_log_matching_path(key, log) ==
    LET log_entry == lookup(log, key.node) IN
    IF log_entry = <<>> THEN Err("KeyError")
    ELSE LET buf == log_entry[1]
             name_len == ReadU16(buf, NodeLen)
         IN IF ~name_len.ok THEN name_len
            ELSE IF NodeLen + 2 + name_len.val > Len(buf) THEN Err("Io")
            ELSE IF Slice(buf, NodeLen + 2, name_len.val) # key.path
                 THEN Err("KeyError")
            ELSE LET m == MetadataRead(buf, NodeLen + 2 + name_len.val) IN
                 IF ~m.ok THEN m
                 ELSE LET compressed_len == ReadU64(buf, m.val.pos) IN
                      IF ~compressed_len.ok THEN compressed_len
                      ELSE IF m.val.pos + 8 + compressed_len.val > Len(buf)
                           THEN Err("Io")
                           ELSE Ok([key |-> key, content |-> None,
                                    compressed_content |->
                                        Some(Slice(buf, m.val.pos + 8,
                                                   compressed_len.val)),
                                    metadata |-> m.val.metadata])

from_log(key, log) ==
    LET log_entry == lookup(log, key.node) IN
    IF log_entry = <<>> THEN Err("KeyError")
    ELSE LET buf == log_entry[1]
             name_len == ReadU16(buf, NodeLen)
         IN IF ~name_len.ok THEN name_len
            ELSE LET m == MetadataRead(buf, NodeLen + 2 + name_len.val) IN
                 IF ~m.ok THEN m
                 ELSE LET compressed_len == ReadU64(buf, m.val.pos) IN
                      IF ~compressed_len.ok THEN compressed_len
                      ELSE IF m.val.pos + 8 + compressed_len.val > Len(buf)
                           THEN Err("Io")
                           ELSE Ok([key |-> key, content |-> None,
                                    compressed_content |->
                                        Some(Slice(buf, m.val.pos + 8,
                                                   compressed_len.val)),
                                    metadata |-> m.val.metadata])

write_to_log_uncompressed(entry) ==
    LET head == entry.key.node \o U16BE(U16(Len(entry.key.path)))
                \o entry.key.path \o MetadataWrite(entry.metadata)
    IN IF entry.content # None
       THEN Ok(head \o U64BE(Len(entry.content[1])) \o entry.content[1])
       ELSE Err("Other")

write_to_log(entry) ==
    LET head == entry.key.node \o U16BE(U16(Len(entry.key.path)))
                \o entry.key.path \o MetadataWrite(entry.metadata)
    IN IF entry.compressed_content # None
       THEN Ok(head \o U64BE(Len(entry.compressed_content[1]))
               \o entry.compressed_content[1])
       ELSE IF entry.content # None
       THEN LET compressed == compress(entry.content[1]) IN
            Ok(head \o U64BE(Len(compressed)) \o compressed)
       ELSE Err("Other")

content_ignoring_lz4_error(entry) ==
    IF entry.content # None THEN Ok(entry.content[1])
    ELSE IF entry.compressed_content # None
    THEN LET raw == decompress(entry.compressed_content[1]) IN
         IF raw.ok THEN raw ELSE Ok(entry.compressed_content[1])
    ELSE Err("Other")

content(entry) ==
    IF entry.content # None THEN Ok(entry.content[1])
    ELSE IF entry.compressed_content # None
    THEN decompress(entry.compressed_content[1])
    ELSE Err("Other")

(***************************************************************************)
(* DataStore and LocalStore of IndexedLogDataStore: the read operations.   *)
(* They take &self and change nothing, so they are operators on the log    *)
(* the handle sees.                                                        *)
(***************************************************************************)
get_delta_losing_error_kind(key, log) ==
    LET entry == from_log(key, log) IN
    IF ~entry.ok THEN Err("Other")
    ELSE LET c == content(entry.val) IN
         IF ~c.ok THEN Err("Other")
         ELSE Ok([data |-> c.val, base |-> None, key |-> key])

get_delta(key, log) ==
    LET entry == from_log(key, log) IN
    IF ~entry.ok THEN entry
    ELSE LET c == content(entry.val) IN
         IF ~c.ok THEN c
         ELSE Ok([data |-> c.val, base |-> None, key |-> key])

get_delta_chain_swallowing_error(key, log) ==
    LET delta == get_delta(key, log) IN
    IF ~delta.ok THEN Ok(<<>>) ELSE Ok(<< delta.val >>)

get_delta_chain(key, log) ==
    LET delta == get_delta(key, log) IN
    IF ~delta.ok THEN delta ELSE Ok(<< delta.val >>)

get_meta(key, log) ==
    LET entry == from_log(key, log) IN
    IF ~entry.ok THEN entry ELSE Ok(entry.val.metadata)

get_missing_filter_inverted(keys, log) ==
    Ok(SelectSeq(keys, LAMBDA k : from_log(k, log).ok))

get_missing(keys, log) == Ok(SelectSeq(keys, LAMBDA k : ~from_log(k, log).ok))

get(key, log) == Err("Panic")

(***************************************************************************)
(* IndexedLogDataStore::add as a function of its arguments: the result it  *)
(* returns and the entries it appends to the log.                          *)
(***************************************************************************)
add_without_ensure(delta, metadata) ==
    LET buf == write_to_log(EntryNew(delta.key, delta.data, metadata)) IN
    IF buf.ok THEN [res |-> Ok(<<>>), appended |-> << buf.val >>]
    ELSE [res |-> buf, appended |-> <<>>]

add_ensure_after_write(delta, metadata) ==
    LET buf == write_to_log(EntryNew(delta.key, delta.data, metadata)) IN
    IF ~buf.ok THEN [res |-> buf, appended |-> <<>>]
    ELSE IF delta.base # None THEN [res |-> Err("Other"), appended |-> << buf.val >>]
    ELSE [res |-> Ok(<<>>), appended |-> << buf.val >>]

add(delta, metadata) ==
    IF delta.base # None THEN [res |-> Err("Other"), appended |-> <<>>]
    ELSE LET buf == write_to_log(EntryNew(delta.key, delta.data, metadata)) IN
         IF buf.ok THEN [res |-> Ok(<<>>), appended |-> << buf.val >>]
         ELSE [res |-> buf, appended |-> <<>>]

(***************************************************************************)
(* mutabledeltastore, the Python class whose store is an indexed log when  *)
(* it is built with indexedlogpath: its DataStore impl borrows the store   *)
(* from the cell and forwards.                                             *)
(***************************************************************************)
mutabledeltastore_get(key, log) == get(key, log)

(***************************************************************************)
(* State.                                                                  *)
(*   disk         the entries persisted under the store's path             *)
(*   isOpen[h]    whether handle h exists                                  *)
(*   synced[h]    how many entries of disk h has loaded (open, flush)      *)
(*   dirty[h]     entries h appended and has not flushed                   *)
(*   durableRecs  what was passed to the adds whose entries are on disk    *)
(*   pendingRecs  what was passed to the adds buffered in dirty[h]         *)
(*   corruptions  number of damaged bytes on disk                          *)
(*   last         the last operation and what it returned                  *)
(*   shards       the shards of a rotating log, oldest first, the active   *)
(*                one last; each is the entries appended to it             *)
(*   shardRecs    what was passed to the adds, shard by shard              *)
(*   dirents      the entries of a pack store's directory                  *)
(*   packs        the packs of the directory a repack reads                *)
(*   cell[o]      the cell of the Python pack object o: the pack, or empty *)
(***************************************************************************)
Rec(key, data, metadata) == [key |-> key, data |-> data, metadata |-> metadata]

RECURSIVE SumLen(_, _)
SumLen(f, S) ==
    IF S = {} THEN 0
    ELSE LET x == CHOOSE y \in S : TRUE IN Len(f[x]) + SumLen(f, S \ {x})

TotalAdds == Len(durableRecs) + SumLen(pendingRecs, Handles)

\* The Python classes that keep their pack in an optional cell.
PyPacks == {"datapack", "historypack"}

Init ==
    /\ disk = <<>>
    /\ isOpen = [h \in Handles |-> FALSE]
    /\ synced = [h \in Handles |-> 0]
    /\ dirty = [h \in Handles |-> <<>>]
    /\ durableRecs = <<>>
    /\ pendingRecs = [h \in Handles |-> <<>>]
    /\ corruptions = 0
    /\ last = [op |-> "none"]
    /\ shards = << <<>> >>
    /\ shardRecs = << <<>> >>
    /\ dirents = <<>>
    /\ packs = <<>>
    /\ cell = [o \in PyPacks |-> Some(o)]

\* IndexedLogDataStore::new: open (creating it if needed) the log at the path.
Open(h) ==
    /\ ~isOpen[h]
    /\ isOpen' = [isOpen EXCEPT ![h] = TRUE]
    /\ synced' = [synced EXCEPT ![h] = Len(disk)]
    /\ dirty' = [dirty EXCEPT ![h] = <<>>]
    /\ pendingRecs' = [pendingRecs EXCEPT ![h] = <<>>]
    /\ last' = [op |-> "open", h |-> h, prev |-> last.op]
    /\ UNCHANGED << disk, durableRecs, corruptions >>
    /\ UNCHANGED otherVars

\* IndexedLogDataStore::add: reject a delta with a base, else build the entry
\* and append its bytes to the log.
Add(h, delta, metadata) ==
    /\ isOpen[h]
    /\ TotalAdds < MaxAdds
    /\ LET r == add(delta, metadata) IN
       /\ dirty' = [dirty EXCEPT ![h] = @ \o r.appended]
       /\ pendingRecs' = [pendingRecs EXCEPT ![h] =
              IF r.appended = <<>> THEN @
              ELSE Append(@, Rec(delta.key, delta.data, metadata))]
       /\ last' = [op |-> "add", key |-> delta.key, base |-> delta.base,
                   res |-> r.res]
    /\ UNCHANGED << disk, isOpen, synced, durableRecs, corruptions >>
    /\ UNCHANGED otherVars

\* LogRotate::flush as IndexedLogDataStore::flush uses it: the buffered
\* entries go to the end of the log on disk, and the handle then sees all of it.
LogFlush(h) ==
    /\ disk' = disk \o dirty[h]
    /\ durableRecs' = durableRecs \o pendingRecs[h]
    /\ dirty' = [dirty EXCEPT ![h] = <<>>]
    /\ pendingRecs' = [pendingRecs EXCEPT ![h] = <<>>]

Flush(h) ==
    /\ isOpen[h]
    /\ LogFlush(h)
    /\ synced' = [synced EXCEPT ![h] = Len(disk')]
    /\ last' = [op |-> "flush", h |-> h]
    /\ UNCHANGED << isOpen, corruptions >>
    /\ UNCHANGED otherVars

CloseWithoutFlush(h) ==
    /\ isOpen[h]
    /\ isOpen' = [isOpen EXCEPT ![h] = FALSE]
    /\ synced' = [synced EXCEPT ![h] = 0]
    /\ dirty' = [dirty EXCEPT ![h] = <<>>]
    /\ pendingRecs' = [pendingRecs EXCEPT ![h] = <<>>]
    /\ last' = [op |-> "close", h |-> h]
    /\ UNCHANGED << disk, durableRecs, corruptions >>
    /\ UNCHANGED otherVars

\* IndexedLogDataStore::close: flush, and the handle (taken by value) is gone.
Close(h) ==
    /\ isOpen[h]
    /\ LogFlush(h)
    /\ isOpen' = [isOpen EXCEPT ![h] = FALSE]
    /\ synced' = [synced EXCEPT ![h] = 0]
    /\ last' = [op |-> "close", h |-> h]
    /\ UNCHANGED << corruptions >>
    /\ UNCHANGED otherVars

\* The handle goes out of scope without close: what it buffered is lost.
Drop(h) ==
    /\ isOpen[h]
    /\ isOpen' = [isOpen EXCEPT ![h] = FALSE]
    /\ synced' = [synced EXCEPT ![h] = 0]
    /\ dirty' = [dirty EXCEPT ![h] = <<>>]
    /\ pendingRecs' = [pendingRecs EXCEPT ![h] = <<>>]
    /\ last' = [op |-> "drop"]
    /\ UNCHANGED << disk, durableRecs, corruptions >>
    /\ UNCHANGED otherVars

\* DataStore::get, directly on the store ("r") or through mutabledeltastore ("w").
Get(h, key) ==
    /\ isOpen[h]
    /\ last' = [op |-> "get", h |-> h, key |-> key,
                res |-> IF h \in Writers THEN mutabledeltastore_get(key, Log(h))
                        ELSE get(key, Log(h))]
    /\ UNCHANGED << disk, isOpen, synced, dirty, durableRecs, pendingRecs,
                    corruptions >>
    /\ UNCHANGED otherVars

Next ==
    \/ \E h \in Handles : Open(h)
    \/ \E h \in Writers, delta \in Deltas, metadata \in Metadatas :
           Add(h, delta, metadata)
    \/ \E h \in Handles : Flush(h)
    \/ \E h \in Handles : Close(h)
    \/ \E h \in Handles : Drop(h)

Spec == Init /\ [][Next]_vars

(***************************************************************************)
(* The store with the callers of DataStore::get.                           *)
(***************************************************************************)
NextGet ==
    \/ Next
    \/ \E h \in Handles, key \in Keys : Get(h, key)

SpecGet == Init /\ [][NextGet]_vars

(***************************************************************************)
(* The store used through one handle, which writes and reads.              *)
(***************************************************************************)
NextWriter ==
    \/ \E h \in Writers : Open(h)
    \/ \E h \in Writers, delta \in Deltas, metadata \in Metadatas :
           Add(h, delta, metadata)
    \/ \E h \in Writers : Flush(h)
    \/ \E h \in Writers : Close(h)
    \/ \E h \in Writers : Drop(h)

SpecWriter == Init /\ [][NextWriter]_vars

(***************************************************************************)
(* The store, used through one handle, on a disk that can damage what it   *)
(* holds: a byte of the compressed payload at the end of an entry (the     *)
(* byte back places before the last) is overwritten.                       *)
(***************************************************************************)
CorruptOffsets == {1, 4}

Corrupt(i, back) ==
    /\ corruptions < MaxCorrupt
    /\ i \in 1..Len(disk)
    /\ disk[i][Len(disk[i]) - back] # 255
    /\ disk' = [disk EXCEPT ![i][Len(disk[i]) - back] = 255]
    /\ corruptions' = corruptions + 1
    /\ last' = [op |-> "corrupt"]
    /\ UNCHANGED << isOpen, synced, dirty, durableRecs, pendingRecs >>
    /\ UNCHANGED otherVars

NextCorrupt ==
    \/ NextWriter
    \/ \E i \in 1..MaxAdds, back \in CorruptOffsets : Corrupt(i, back)

SpecCorrupt == Init /\ [][NextCorrupt]_vars

(***************************************************************************)
(* What a handle can see of what was written: the records of the adds      *)
(* whose entries it has loaded from disk, then those of its own buffer.    *)
(***************************************************************************)
FlushedRecs(h) == SubSeq(durableRecs, 1, synced[h])
VisibleRecs(h) == FlushedRecs(h) \o pendingRecs[h]
RecsOfNode(recs, node) == SelectSeq(recs, LAMBDA r : r.key.node = node)
HasNode(recs, node) == RecsOfNode(recs, node) # <<>>
LatestRec(recs, node) == RecsOfNode(recs, node)[Len(RecsOfNode(recs, node))]
IsPrefix(s, t) == Len(s) <= Len(t) /\ SubSeq(t, 1, Len(s)) = s

(***************************************************************************)
(* C1.  add(delta, metadata) fails if and only if delta.base is Some: an   *)
(* add whose delta has no base returns Ok and appends exactly one entry to *)
(* the log of the handle, an add whose delta has a base returns an error.  *)
(***************************************************************************)
C1_AddFailsIffBase ==
    [][last'.op = "add" =>
          IF last'.base = None
          THEN /\ last'.res.ok
               /\ \E h \in Writers :
                      /\ Len(dirty'[h]) = Len(dirty[h]) + 1
                      /\ IsPrefix(dirty[h], dirty'[h])
                      /\ \A g \in Handles \ {h} : dirty'[g] = dirty[g]
               /\ disk' = disk
          ELSE ~last'.res.ok]_vars

C1_Witness ==
    /\ last.op = "add" /\ last.base = None /\ last.res.ok
    /\ \E h \in Writers : Len(dirty[h]) = 2

(***************************************************************************)
(* C6.  A rejected add leaves the log unchanged: nothing is appended, on   *)
(* disk or in any handle's buffer, so every handle's get_delta, get_meta   *)
(* and get_missing answer for every key as they did before the call; in    *)
(* particular the rejected key is still reported missing when it was       *)
(* missing before.                                                         *)
(***************************************************************************)
C6_RejectedAddChangesNothing ==
    [][(last'.op = "add" /\ ~last'.res.ok) =>
          /\ disk' = disk /\ dirty' = dirty /\ synced' = synced
          /\ isOpen' = isOpen
          /\ \A h \in Handles : isOpen[h] =>
                /\ \A k \in Keys :
                      /\ get_delta(k, Log(h)') = get_delta(k, Log(h))
                      /\ get_meta(k, Log(h)') = get_meta(k, Log(h))
                      /\ get_missing(<< k >>, Log(h)') = get_missing(<< k >>, Log(h))
                /\ (~from_log(last'.key, Log(h)).ok =>
                       get_missing(<< last'.key >>, Log(h)')
                           = Ok(<< last'.key >>))]_vars

C6_Witness ==
    /\ last.op = "add" /\ last.base # None /\ ~last.res.ok
    /\ last.key = KeyA2
    /\ \E h \in Writers :
          /\ isOpen[h] /\ Len(Log(h)) = 1
          /\ get_missing(<< KeyA2, KeyA1 >>, Log(h)) = Ok(<< KeyA2 >>)

(***************************************************************************)
(* C2.  Data round-trip, as claimed: after the adds, a close and a reopen, *)
(* get_delta(k) of every written key k returns the Delta written for k     *)
(* (the last one written under that key): key k, no base, the same data.   *)
(***************************************************************************)
LastOfKey(recs, i) == \A j \in (i + 1)..Len(recs) : recs[j].key # recs[i].key

C2_RoundTripPerKey ==
    (last.op = "open" /\ last.prev = "close") =>
        \A i \in 1..synced[last.h] :
            LastOfKey(FlushedRecs(last.h), i) =>
                get_delta(durableRecs[i].key, Log(last.h))
                    = Ok([data |-> durableRecs[i].data, base |-> None,
                          key |-> durableRecs[i].key])

(***************************************************************************)
(* C2, amended.  For every handle and every key k written by an add that   *)
(* the handle can see (after close and reopen: every add before the        *)
(* close), get_delta(k) succeeds and returns key k, no base, and the data  *)
(* passed to the most recent add whose key has the node of k.              *)
(***************************************************************************)
C2_RoundTripPerNode ==
    \A h \in Handles : isOpen[h] =>
        \A i \in 1..Len(VisibleRecs(h)) :
            LET k == VisibleRecs(h)[i].key IN
            get_delta(k, Log(h))
                = Ok([data |-> LatestRec(VisibleRecs(h), k.node).data,
                      base |-> None, key |-> k])

C2_Witness ==
    /\ last.op = "open" /\ last.prev = "close" /\ synced[last.h] = 2
    /\ durableRecs[1].key = KeyA1 /\ durableRecs[2].key = KeyA2
    /\ durableRecs[1].data # durableRecs[2].data
    /\ \A i \in 1..2 :
          get_delta(durableRecs[i].key, Log(last.h))
              = Ok([data |-> durableRecs[i].data, base |-> None,
                    key |-> durableRecs[i].key])

(***************************************************************************)
(* C3.  Metadata round-trip, as claimed: after the adds, a close and a     *)
(* reopen, get_meta(k) of every written key k returns the metadata passed  *)
(* to the add of k (the last one under that key).                          *)
(***************************************************************************)
C3_MetaRoundTripPerKey ==
    (last.op = "open" /\ last.prev = "close") =>
        \A i \in 1..synced[last.h] :
            LastOfKey(FlushedRecs(last.h), i) =>
                get_meta(durableRecs[i].key, Log(last.h))
                    = Ok(durableRecs[i].metadata)

(***************************************************************************)
(* C3, amended.  For every handle and every key k written by an add that   *)
(* the handle can see, get_meta(k) returns the metadata passed to the most *)
(* recent add whose key has the node of k.                                 *)
(***************************************************************************)
C3_MetaRoundTripPerNode ==
    \A h \in Handles : isOpen[h] =>
        \A i \in 1..Len(VisibleRecs(h)) :
            LET k == VisibleRecs(h)[i].key IN
            get_meta(k, Log(h)) = Ok(LatestRec(VisibleRecs(h), k.node).metadata)

C3_Witness ==
    /\ last.op = "open" /\ last.prev = "close" /\ synced[last.h] = 2
    /\ durableRecs[1] = Rec(KeyB1, << 9 >>, MetaSize)
    /\ durableRecs[2].key = KeyA2 /\ durableRecs[2].metadata = MetaDefault
    /\ get_meta(KeyB1, Log(last.h)) = Ok(MetaSize)
    /\ get_meta(KeyA2, Log(last.h)) = Ok(MetaDefault)

(***************************************************************************)
(* C4.  get_missing(S) returns exactly the keys of S for which the store   *)
(* holds no record (no add the handle can see wrote the key's node, the    *)
(* node being what the log indexes), in the order of S, repeated keys      *)
(* repeated.                                                               *)
(***************************************************************************)
ProbeLists == UNION {[1..n -> Keys] : n \in 0..MaxProbe}

C4_MissingProbe ==
    \A h \in Handles : isOpen[h] =>
        \A S \in ProbeLists :
            get_missing(S, Log(h))
                = Ok(SelectSeq(S, LAMBDA k : ~HasNode(VisibleRecs(h), k.node)))

C4_Witness ==
    \E h \in Handles :
        /\ isOpen[h] /\ Len(VisibleRecs(h)) = 1
        /\ VisibleRecs(h)[1].key = KeyA1
        /\ get_missing(<< KeyB2, KeyA1 >>, Log(h)) = Ok(<< KeyB2 >>)
        /\ get_missing(<< KeyA2, KeyA2 >>, Log(h)) = Ok(<< KeyA2, KeyA2 >>)

(***************************************************************************)
(* C5.  A lookup that finds nothing fails with KeyError and with no other  *)
(* error: on a fresh store, on a store opened, closed and reopened without *)
(* any add, and whenever no add the handle can see wrote the key's node,   *)
(* get_delta(k) is Err(KeyError).                                          *)
(***************************************************************************)
C5_LookupFailureIsKeyError ==
    \A h \in Handles : isOpen[h] =>
        \A k \in Keys :
            ~HasNode(VisibleRecs(h), k.node) =>
                get_delta(k, Log(h)) = Err("KeyError")

C5_Witness ==
    /\ last.op = "open" /\ last.prev = "close"
    /\ disk = <<>> /\ durableRecs = <<>>
    /\ \A k \in Keys : get_delta(k, Log(last.h)) = Err("KeyError")

(***************************************************************************)
(* C7.  Flush ordering: when flush or close returns on a handle, every add *)
(* that had returned Ok on it is on disk, where get_delta, get_meta and    *)
(* get_missing of a handle that loads the disk find it; nothing on disk is *)
(* ever removed; and a handle that opens loads all of the disk.            *)
(***************************************************************************)
LogAfter(h) == SubSeq(disk', 1, synced'[h]) \o dirty'[h]

Visible(r, log) ==
    /\ get_missing(<< r.key >>, log) = Ok(<<>>)
    /\ get_delta(r.key, log).ok
    /\ get_meta(r.key, log).ok

C7_FlushOrdering ==
    [][/\ IsPrefix(disk, disk')
       /\ last'.op \in {"flush", "close"} =>
             /\ \A i \in 1..Len(pendingRecs[last'.h]) :
                   Visible(pendingRecs[last'.h][i], disk')
             /\ IsPrefix(dirty[last'.h], SubSeq(disk', Len(disk) + 1, Len(disk')))
       /\ last'.op = "open" =>
             /\ LogAfter(last'.h) = disk'
             /\ \A i \in 1..Len(durableRecs') :
                   Visible(durableRecs'[i], LogAfter(last'.h))]_vars

C7_Witness ==
    /\ last.op = "open" /\ last.h = "r" /\ last.prev = "flush"
    /\ isOpen["w"] /\ synced["r"] = 2 /\ dirty["w"] = <<>>
    /\ durableRecs[1].key = KeyA1 /\ durableRecs[2].key = KeyA2
    /\ Visible(durableRecs[1], Log("r")) /\ Visible(durableRecs[2], Log("r"))

(***************************************************************************)
(* C8.  get_delta_chain(k) succeeds exactly when get_delta(k) succeeds,    *)
(* and then returns a list of exactly one element, the Delta get_delta(k)  *)
(* returns, whose base is None.                                            *)
(***************************************************************************)
C8_SingleElementChain ==
    \A h \in Handles : isOpen[h] =>
        \A k \in Keys :
            LET delta == get_delta(k, Log(h))
                chain == get_delta_chain(k, Log(h))
            IN /\ chain.ok <=> delta.ok
               /\ chain.ok => /\ Len(chain.val) = 1
                              /\ chain.val[1] = delta.val
                              /\ chain.val[Len(chain.val)].base = None
               /\ ~chain.ok => chain = delta

C8_Witness ==
    \E h \in Handles :
        /\ isOpen[h]
        /\ get_delta_chain(KeyA1, Log(h))
               = Ok(<< [data |-> << 1, 2, 3, 4 >>, base |-> None, key |-> KeyA1] >>)
        /\ get_delta_chain(KeyA2, Log(h)) = Err("KeyError")

(***************************************************************************)
(* C9.  get(key) returns the decompressed payload of a stored key and a    *)
(* not-found error for an absent key, directly and through                 *)
(* mutabledeltastore.                                                      *)
(***************************************************************************)
C9_GetReturnsContent ==
    last.op = "get" =>
        IF HasNode(VisibleRecs(last.h), last.key.node)
        THEN last.res = Ok(LatestRec(VisibleRecs(last.h), last.key.node).data)
        ELSE last.res = Err("KeyError")

(***************************************************************************)
(* C10.  get_delta(k) returns a Delta only when the compressed payload of  *)
(* the entry decompresses, and its data is then the decompressed bytes;    *)
(* when the header of the entry parses and the payload does not            *)
(* decompress, get_delta returns the decompression error.                  *)
(***************************************************************************)
C10_DeltaOnlyIfDecompresses ==
    \A h \in Handles : isOpen[h] =>
        \A k \in Keys :
            LET entry == from_log(k, Log(h))
                delta == get_delta(k, Log(h))
            IN IF ~entry.ok THEN delta = entry
               ELSE LET raw == decompress(entry.val.compressed_content[1]) IN
                    IF raw.ok
                    THEN delta = Ok([data |-> raw.val, base |-> None, key |-> k])
                    ELSE delta = Err("Lz4")

C10_Witness ==
    \E h \in Handles :
        /\ isOpen[h] /\ corruptions = 1
        /\ from_log(KeyA1, Log(h)).ok
        /\ ~decompress(from_log(KeyA1, Log(h)).val.compressed_content[1]).ok
        /\ get_delta(KeyA1, Log(h)) = Err("Lz4")
        /\ get_meta(KeyA1, Log(h)).ok

(***************************************************************************)
(* The rotating log under IndexedLogDataStore.  The store asks the log     *)
(* library for max_log_count shards of max_bytes_per_log bytes (10 shards  *)
(* of 1 GiB in IndexedLogDataStore::new); the rotation runs here with caps *)
(* small enough for an append to reach them.  An append that would make    *)
(* the active shard exceed its cap starts a new shard, and the oldest      *)
(* shard is dropped when there are more shards than the count allows.      *)
(* A lookup goes through the surviving shards, the newest first.           *)
(***************************************************************************)
RECURSIVE Flatten(_)
Flatten(ss) == IF ss = <<>> THEN <<>> ELSE Head(ss) \o Flatten(Tail(ss))

RECURSIVE Bytes(_)
Bytes(shard) ==
    IF shard = <<>> THEN 0 ELSE Len(Head(shard)) + Bytes(Tail(shard))

LastN(s, n) == SubSeq(s, Len(s) - n + 1, Len(s))

WouldExceed(ss, buf) == Bytes(ss[Len(ss)]) + Len(buf) > max_bytes_per_log

\* LogRotate::append of the entry buf to the shards: x is what is kept of
\* it in ss (the bytes in shards, the record in shardRecs).
Rotate(ss, buf, x) ==
    IF WouldExceed(shards, buf)
    THEN Append(ss, << x >>)
    ELSE [ss EXCEPT ![Len(ss)] = Append(@, x)]

DropOldest(ss) == IF Len(ss) > max_log_count THEN Tail(ss) ELSE ss

RotLog == Flatten(shards)
SurvivingRecs == Flatten(LastN(shardRecs, Len(shards)))
DroppedRecs == Flatten(SubSeq(shardRecs, 1, Len(shardRecs) - Len(shards)))
Appends == Len(Flatten(shardRecs))

RotDeltas ==
    { [key |-> KeyA1, base |-> None, data |-> << 9 >>],
      [key |-> KeyB1, base |-> None, data |-> << 1, 2, 3, 4 >>],
      [key |-> KeyA2, base |-> None, data |-> << 9 >>],
      [key |-> KeyB2, base |-> Some(KeyA1), data |-> << 9 >>] }

\* IndexedLogDataStore::add on the rotating log.
RotAdd(delta, metadata) ==
    /\ Appends < MaxAppends
    /\ LET r == add(delta, metadata) IN
       /\ IF r.appended = <<>>
          THEN UNCHANGED << shards, shardRecs >>
          ELSE /\ shards' = DropOldest(Rotate(shards, r.appended[1],
                                              r.appended[1]))
               /\ shardRecs' = Rotate(shardRecs, r.appended[1],
                                      Rec(delta.key, delta.data, metadata))
       /\ last' = [op |-> "add", key |-> delta.key, base |-> delta.base,
                   res |-> r.res]
    /\ UNCHANGED logVars
    /\ UNCHANGED << dirents, packs, cell >>

NextRotate == \E delta \in RotDeltas : RotAdd(delta, MetaDefault)

SpecRotate == Init /\ [][NextRotate]_vars

(***************************************************************************)
(* C11. Rotation: an append that would make the active shard exceed its    *)
(* size cap makes a new shard the active one, and the oldest shard is      *)
(* dropped when the shard count would exceed its cap.  Afterwards a key is *)
(* reported by get_missing, and fails get_delta with a key error, exactly  *)
(* when no surviving shard holds an entry for its node: entries in         *)
(* surviving shards stay retrievable (the newest for the node is           *)
(* returned), entries only in a dropped shard are missing.                 *)
(***************************************************************************)
C11_Retrievable(log, recs) ==
    \A k \in Keys :
        /\ (get_missing(<< k >>, log) = Ok(<< k >>)) <=> ~HasNode(recs, k.node)
        /\ (get_missing(<< k >>, log) = Ok(<<>>)) <=> HasNode(recs, k.node)
        /\ ~HasNode(recs, k.node) => get_delta(k, log) = Err("KeyError")
        /\ HasNode(recs, k.node) =>
               /\ get_delta(k, log).ok
               /\ get_delta(k, log).val.data = LatestRec(recs, k.node).data

C11_Step ==
    /\ (last'.op = "add" /\ last'.res.ok) =>
           LET active == shards[Len(shards)]
               active2 == shards'[Len(shards')]
               e == active2[Len(active2)]
           IN IF Bytes(active) + Len(e) > max_bytes_per_log
              THEN /\ active2 = << e >>
                   /\ shards' = IF Len(shards) = max_log_count
                                 THEN Append(Tail(shards), << e >>)
                                 ELSE Append(shards, << e >>)
              ELSE shards' = [shards EXCEPT ![Len(shards)] = Append(@, e)]
    /\ Len(shards') <= max_log_count
    /\ \A i \in 1..Len(shards') : Bytes(shards'[i]) <= max_bytes_per_log
    /\ C11_Retrievable(Flatten(shards'),
                       Flatten(LastN(shardRecs', Len(shards'))))

C11_Rotation == [][C11_Step]_vars

C11_Witness ==
    /\ last.op = "add"
    /\ Len(shardRecs) > Len(shards)
    /\ Len(shards) = max_log_count
    /\ HasNode(DroppedRecs, Node2) /\ ~HasNode(SurvivingRecs, Node2)
    /\ get_missing(<< KeyA2, KeyB1 >>, RotLog) = Ok(<< KeyA2 >>)
    /\ get_delta(KeyA2, RotLog) = Err("KeyError")
    /\ get_delta(KeyB1, RotLog).ok

(***************************************************************************)
(* getmetrics of the pack stores.  The directory is the sequence of        *)
(* entries read_dir yields; an entry has the extension of its path (None   *)
(* when the path has none) and the size its metadata reports.  A call      *)
(* meets at most one filesystem fault before it returns: read_dir fails,   *)
(* or reading the entry at a position fails, or the metadata of the entry  *)
(* at a position cannot be read.                                           *)
(***************************************************************************)
FileExts == { Some("datapack"), Some("dataidx"), Some("histpack"),
              Some("histidx"), None }
FileSizes == { 1, 2 }
Dirents == [ext : FileExts, size : FileSizes]

NoFault == [at |-> 0, kind |-> "none"]
Faults(n) ==
    { NoFault, [at |-> 0, kind |-> "read_dir"] }
    \cup [at : 1..n, kind : {"dirent", "metadata"}]

ExtMatches(dirent, extensions) ==
    /\ dirent.ext # None
    /\ \E j \in 1..Len(extensions) : extensions[j] = dirent.ext[1]

RECURSIVE ScanFrom(_, _, _, _, _, _)
ScanFrom(ds, i, extensions, fault, size, count) ==
    IF i > Len(ds) THEN Ok(<< size, count >>)
    ELSE IF fault.at = i /\ fault.kind = "dirent" THEN Err("Io")
    ELSE IF ExtMatches(ds[i], extensions)
         THEN IF fault.at = i /\ fault.kind = "metadata" THEN Err("Io")
              ELSE ScanFrom(ds, i + 1, extensions, fault,
                            size + ds[i].size, count + 1)
         ELSE ScanFrom(ds, i + 1, extensions, fault, size, count)

compute_store_size_counting_indexes(ds, extensions, fault) ==
    IF fault.kind = "read_dir" THEN Err("Io")
    ELSE IF Len(extensions) # 2 THEN Err("Panic")
    ELSE ScanFrom(ds, 1, extensions, fault, 0, 0)

compute_store_size(ds, extensions, fault) ==
    IF fault.kind = "read_dir" THEN Err("Io")
    ELSE IF Len(extensions) # 2 THEN Err("Panic")
    ELSE LET r == ScanFrom(ds, 1, extensions, fault, 0, 0) IN
         IF r.ok THEN Ok(<< r.val[1], r.val[2] \div 2 >>) ELSE r

Metrics(size, count) == [numpacks |-> count, totalpacksize |-> size]

datapackstore_getmetrics_propagating(ds, fault) ==
    LET r == compute_store_size(ds, << "datapack", "dataidx" >>, fault) IN
    IF r.ok THEN Ok(Metrics(r.val[1], r.val[2])) ELSE r

datapackstore_getmetrics(ds, fault) ==
    LET r == compute_store_size(ds, << "datapack", "dataidx" >>, fault) IN
    IF r.ok THEN Ok(Metrics(r.val[1], r.val[2])) ELSE Ok(Metrics(0, 0))

historypackstore_getmetrics(ds, fault) ==
    LET r == compute_store_size(ds, << "histpack", "histidx" >>, fault) IN
    IF r.ok THEN Ok(Metrics(r.val[1], r.val[2])) ELSE Ok(Metrics(0, 0))

PackStores == {"datapackstore", "historypackstore"}
StoreExts(store) ==
    IF store = "datapackstore" THEN {"datapack", "dataidx"}
    ELSE {"histpack", "histidx"}

\* A pack, an index or another file appears in the store's directory.
CreateFile(dirent) ==
    /\ Len(dirents) < MaxDirents
    /\ dirents' = Append(dirents, dirent)
    /\ last' = [op |-> "create"]
    /\ UNCHANGED logVars
    /\ UNCHANGED << shards, shardRecs, packs, cell >>

GetMetrics(store, fault) ==
    /\ last' = [op |-> "getmetrics", store |-> store, fault |-> fault,
                res |-> IF store = "datapackstore"
                        THEN datapackstore_getmetrics(dirents, fault)
                        ELSE historypackstore_getmetrics(dirents, fault)]
    /\ UNCHANGED logVars
    /\ UNCHANGED otherVars

NextMetrics ==
    \/ \E dirent \in Dirents : CreateFile(dirent)
    \/ \E store \in PackStores, fault \in Faults(Len(dirents)) :
           GetMetrics(store, fault)

SpecMetrics == Init /\ [][NextMetrics]_vars

(***************************************************************************)
(* C12. getmetrics of a pack store returns numpacks = half the number of   *)
(* directory entries whose extension is one of the store's two extensions  *)
(* (the integer half: an odd count rounds down) and totalpacksize = the    *)
(* sum of the sizes of exactly those entries; entries with any other       *)
(* extension, or with none, add to neither.                                *)
(***************************************************************************)
Matching(store) ==
    { i \in 1..Len(dirents) :
          dirents[i].ext # None /\ dirents[i].ext[1] \in StoreExts(store) }

RECURSIVE SumSizes(_)
SumSizes(I) ==
    IF I = {} THEN 0
    ELSE LET i == CHOOSE x \in I : TRUE IN dirents[i].size + SumSizes(I \ {i})

C12_MetricsCountAndSize ==
    (last.op = "getmetrics" /\ last.fault = NoFault) =>
        /\ last.res.ok
        /\ 2 * last.res.val.numpacks \in
               { Cardinality(Matching(last.store)),
                 Cardinality(Matching(last.store)) - 1 }
        /\ last.res.val.totalpacksize = SumSizes(Matching(last.store))

C12_Witness ==
    /\ last.op = "getmetrics" /\ last.fault = NoFault
    /\ last.store = "datapackstore"
    /\ Cardinality(Matching("datapackstore")) = 2
    /\ Len(dirents) = 3
    /\ last.res.val.numpacks = 1
    /\ last.res.val.totalpacksize = 3

(***************************************************************************)
(* C13. getmetrics never surfaces a filesystem error: when the scan of the *)
(* directory fails (read_dir, or reading an entry), or the size of a       *)
(* matching file cannot be read, at any point of the scan, the result is   *)
(* numpacks = 0 and totalpacksize = 0, not a partial count, not an error.  *)
(***************************************************************************)
FaultHits(store, fault) ==
    \/ fault.kind \in {"read_dir", "dirent"}
    \/ fault.kind = "metadata" /\ fault.at \in Matching(store)

C13_MetricsErrorsAreZero ==
    last.op = "getmetrics" =>
        /\ last.res.ok
        /\ FaultHits(last.store, last.fault) =>
               last.res.val = [numpacks |-> 0, totalpacksize |-> 0]

C13_Witness ==
    /\ last.op = "getmetrics"
    /\ last.store = "datapackstore"
    /\ last.fault.at = 3
    /\ Matching("datapackstore") = {1, 2, 3}
    /\ last.res = Ok([numpacks |-> 0, totalpacksize |-> 0])

(***************************************************************************)
(* Repack.  The directory holds packs; a pack has a kind (the extension of *)
(* its file), a size and its entries in the order they are stored; an      *)
(* entry is a key with the record kept for it (the delta base in a data    *)
(* pack, the node info in a history pack).  Sizes are counted in KiB.      *)
(* list_packs, the incremental filter and the merge belong to              *)
(* revisionstore::repack and follow section 4.7; the four Python           *)
(* functions compose them.                                                 *)
(***************************************************************************)
MiB == 1024
GENERATION_BYTES == 100 * MiB
GENERATION_GROWTH_RATIO == 2

PackEntry(key, value) == [key |-> key, value |-> value]
Pack(kind, size, entries) == [kind |-> kind, size |-> size, entries |-> entries]

list_packs(dir, extension) == SelectSeq(dir, LAMBDA p : p.kind = extension)

HasKey(builder, key) == \E i \in 1..Len(builder) : builder[i].key = key

RECURSIVE MergeEntries(_, _)
MergeEntries(builder, entries) ==
    IF entries = <<>> THEN builder
    ELSE MergeEntries(IF HasKey(builder, Head(entries).key) THEN builder
                      ELSE Append(builder, Head(entries)),
                      Tail(entries))

RECURSIVE MergePacks(_, _)
MergePacks(builder, ps) ==
    IF ps = <<>> THEN builder
    ELSE MergePacks(MergeEntries(builder, Head(ps).entries), Tail(ps))

repack_datapacks(ps) == Ok(MergePacks(<<>>, ps))
repack_historypacks(ps) == Ok(MergePacks(<<>>, ps))

Max(a, b) == IF a >= b THEN a ELSE b
MinSize(ps) ==
    LET sizes == { ps[i].size : i \in 1..Len(ps) }
    IN CHOOSE m \in sizes : \A s \in sizes : m <= s

Below(ps, threshold) == { i \in 1..Len(ps) : ps[i].size < threshold }

RECURSIVE TotalSize(_, _)
TotalSize(ps, I) ==
    IF I = {} THEN 0
    ELSE LET i == CHOOSE x \in I : TRUE IN ps[i].size + TotalSize(ps, I \ {i})

RECURSIVE SelectFrom(_, _)
SelectFrom(ps, threshold) ==
    LET picked == Below(ps, threshold) IN
    IF TotalSize(ps, picked) >= threshold THEN picked
    ELSE IF picked = 1..Len(ps) THEN {}
    ELSE SelectFrom(ps, threshold * GENERATION_GROWTH_RATIO)

At(ps, I) ==
    LET idx == SelectSeq([i \in 1..Len(ps) |-> i], LAMBDA i : i \in I)
    IN [j \in 1..Len(idx) |-> ps[idx[j]]]

filter_incrementalpacks(ps, extension) ==
    IF ps = <<>> THEN Ok(<<>>)
    ELSE Ok(At(ps, SelectFrom(ps, Max(GENERATION_BYTES,
                                      MinSize(ps) * GENERATION_GROWTH_RATIO))))

repackdata_listing_histpacks(dir) == repack_datapacks(list_packs(dir, "histpack"))

repackdata(dir) == repack_datapacks(list_packs(dir, "datapack"))

repackhist(dir) == repack_historypacks(list_packs(dir, "histpack"))

incremental_repackdata_unfiltered(dir) ==
    repack_datapacks(list_packs(dir, "datapack"))

incremental_repackdata(dir) ==
    repack_datapacks(
        filter_incrementalpacks(list_packs(dir, "datapack"), "datapack").val)

incremental_repackhist(dir) ==
    repack_historypacks(
        filter_incrementalpacks(list_packs(dir, "histpack"), "histpack").val)

Repackers ==
    { "repackdata", "repackhist", "incremental_repackdata",
      "incremental_repackhist" }
Incremental == { "incremental_repackdata", "incremental_repackhist" }
ExtOf(fn) ==
    IF fn \in {"repackdata", "incremental_repackdata"} THEN "datapack"
    ELSE "histpack"

\* A finalized pack appears in the directory.
WritePack(pack, max) ==
    /\ Len(packs) < max
    /\ packs' = Append(packs, pack)
    /\ last' = [op |-> "write"]
    /\ UNCHANGED logVars
    /\ UNCHANGED << shards, shardRecs, dirents, cell >>

\* One of the four repack functions of the Python module runs on the
\* directory; the packs it leaves in place.
Repack(fn) ==
    /\ last' = [op |-> "repack", fn |-> fn,
                res |-> CASE fn = "repackdata" -> repackdata(packs)
                          [] fn = "repackhist" -> repackhist(packs)
                          [] fn = "incremental_repackdata" ->
                                 incremental_repackdata(packs)
                          [] fn = "incremental_repackhist" ->
                                 incremental_repackhist(packs)]
    /\ UNCHANGED logVars
    /\ UNCHANGED otherVars

Values == { None, Some(KeyB2) }
RepackEntries == [key : {KeyA1, KeyA2}, value : Values]
RepackPacks ==
    { Pack(kind, 60 * MiB, es) :
          kind \in {"datapack", "histpack"},
          es \in { << e >> : e \in RepackEntries }
                 \cup { << e, f >> : e \in { x \in RepackEntries : x.key = KeyA1 },
                                     f \in { x \in RepackEntries : x.key = KeyA2 } }
                 \cup { << f, e >> : e \in { x \in RepackEntries : x.key = KeyA1 },
                                     f \in { x \in RepackEntries : x.key = KeyA2 } } }

NextRepack ==
    \/ \E pack \in RepackPacks : WritePack(pack, MaxPacks)
    \/ \E fn \in Repackers : Repack(fn)

SpecRepack == Init /\ [][NextRepack]_vars

FilterPacks ==
    { Pack("datapack", 10 * MiB, << PackEntry(KeyA1, None) >>),
      Pack("datapack", 60 * MiB, << PackEntry(KeyB1, None) >>),
      Pack("datapack", 500 * MiB, << PackEntry(KeyA2, None) >>),
      Pack("histpack", 60 * MiB, << PackEntry(KeyB1, None) >>),
      Pack("histpack", 500 * MiB, << PackEntry(KeyA2, None) >>) }

NextFilter ==
    \/ \E pack \in FilterPacks : WritePack(pack, MaxCandidates)
    \/ \E fn \in Incremental : Repack(fn)

SpecFilter == Init /\ [][NextFilter]_vars

(***************************************************************************)
(* What a repack function hands to the merge: every pack of its extension, *)
(* or, for an incremental repack, those the filter selects.                *)
(***************************************************************************)
Candidates(fn) == list_packs(packs, ExtOf(fn))
Sources(fn) ==
    IF fn \in Incremental
    THEN filter_incrementalpacks(Candidates(fn), ExtOf(fn)).val
    ELSE Candidates(fn)
ScanOrder(ps) == Flatten([i \in 1..Len(ps) |-> ps[i].entries])

(***************************************************************************)
(* C14. Repack de-duplication: for any repack (full or incremental, data   *)
(* or history) over the source packs scanned in order, the output holds    *)
(* every key present in a source pack, holds each key at most once, and    *)
(* the record kept for a key is the record of its first occurrence in      *)
(* scan order.                                                             *)
(***************************************************************************)
C14_RepackDedup ==
    last.op = "repack" =>
        /\ last.res.ok
        /\ LET out == last.res.val
               scan == ScanOrder(Sources(last.fn))
           IN /\ { out[i].key : i \in 1..Len(out) }
                     = { scan[j].key : j \in 1..Len(scan) }
              /\ \A i, j \in 1..Len(out) : out[i].key = out[j].key => i = j
              /\ \A i \in 1..Len(out) :
                     \E j \in 1..Len(scan) :
                         /\ scan[j] = out[i]
                         /\ \A n \in 1..(j - 1) : scan[n].key # out[i].key

C14_Witness ==
    /\ last.op = "repack" /\ last.fn = "repackdata"
    /\ Len(Sources("repackdata")) = 2
    /\ Sources("repackdata")[1].entries = << PackEntry(KeyA1, None) >>
    /\ Sources("repackdata")[2].entries
           = << PackEntry(KeyA2, None), PackEntry(KeyA1, Some(KeyB2)) >>
    /\ last.res.val = << PackEntry(KeyA1, None), PackEntry(KeyA2, None) >>

(***************************************************************************)
(* C15. Incremental selection: the filter ends for every list of candidate *)
(* sizes, and what it selects is either nothing or exactly the candidates  *)
(* whose size is below a threshold T and whose total size is >= T, T being *)
(* the first value of max(GENERATION_BYTES, min(S) x ratio), x ratio,      *)
(* x ratio ... for which that holds; the selection is part of the          *)
(* candidates, and the merge gets the selected packs only.                 *)
(***************************************************************************)
RECURSIVE Threshold(_, _)
Threshold(ps, n) ==
    IF n = 0 THEN Max(GENERATION_BYTES, MinSize(ps) * GENERATION_GROWTH_RATIO)
    ELSE Threshold(ps, n - 1) * GENERATION_GROWTH_RATIO

Selects(ps, n) ==
    TotalSize(ps, Below(ps, Threshold(ps, n))) >= Threshold(ps, n)

C15_IncrementalSelection ==
    (last.op = "repack" /\ last.fn \in Incremental) =>
        LET cands == Candidates(last.fn)
            selected == filter_incrementalpacks(cands, ExtOf(last.fn))
            firsts == { n \in 0..MaxDoublings :
                            /\ Selects(cands, n)
                            /\ \A m \in 0..(n - 1) : ~Selects(cands, m) }
        IN /\ selected.ok
           /\ \A i \in 1..Len(selected.val) :
                  \E j \in 1..Len(cands) : cands[j] = selected.val[i]
           /\ IF cands = <<>> \/ firsts = {}
              THEN selected.val = <<>>
              ELSE \E n \in firsts :
                       selected.val = At(cands, Below(cands, Threshold(cands, n)))
           /\ last.res = (IF ExtOf(last.fn) = "datapack"
                          THEN repack_datapacks(selected.val)
                          ELSE repack_historypacks(selected.val))

C15_Witness ==
    /\ last.op = "repack" /\ last.fn = "incremental_repackdata"
    /\ Len(packs) = 3
    /\ packs[1].size = 60 * MiB /\ packs[1].kind = "datapack"
    /\ packs[2].size = 500 * MiB /\ packs[2].kind = "datapack"
    /\ packs[3].size = 60 * MiB /\ packs[3].kind = "datapack"
    /\ Sources("incremental_repackdata") = << packs[1], packs[3] >>
    /\ last.res.val = << PackEntry(KeyB1, None) >>

(***************************************************************************)
(* C16. Scenario S5: with GENERATION_BYTES = 100 MiB and growth ratio 2,   *)
(* the incremental filter run on candidate packs of sizes                  *)
(* [10, 10, 10, 10, 10, 500] MiB selects exactly the five 10-MiB packs.    *)
(***************************************************************************)
S5Sizes == << 10 * MiB, 10 * MiB, 10 * MiB, 10 * MiB, 10 * MiB, 500 * MiB >>

C16_ScenarioS5 ==
    ( /\ last.op = "repack" /\ last.fn = "incremental_repackdata"
      /\ [i \in 1..Len(packs) |-> packs[i].size] = S5Sizes
      /\ \A i \in 1..Len(packs) : packs[i].kind = "datapack" ) =>
        /\ Sources("incremental_repackdata") = SubSeq(packs, 1, 5)
        /\ last.res = repack_datapacks(SubSeq(packs, 1, 5))

(***************************************************************************)
(* C17. Lookup in the indexed log is by node alone and echoes the key      *)
(* asked for: when only k1 = (p1, n) was added under node n and            *)
(* k2 = (p2, n) has another path, get_delta(k2) succeeds with key k2 and   *)
(* the data written for k1, get_meta(k2) is the metadata of k1 and         *)
(* get_missing([k2]) is empty; every successful get_delta(k) returns a     *)
(* Delta whose key is k.                                                   *)
(***************************************************************************)
OnlyAddedUnder(recs, k1) ==
    /\ HasNode(recs, k1.node)
    /\ \A i \in 1..Len(recs) : recs[i].key.node = k1.node => recs[i].key = k1

C17_LookupByNodeEchoesKey ==
    \A h \in Handles : isOpen[h] =>
        \A k2 \in Keys :
            /\ get_delta(k2, Log(h)).ok => get_delta(k2, Log(h)).val.key = k2
            /\ \A k1 \in Keys :
                   ( /\ k1.node = k2.node /\ k1.path # k2.path
                     /\ OnlyAddedUnder(VisibleRecs(h), k1) ) =>
                       LET written == LatestRec(VisibleRecs(h), k1.node) IN
                       /\ get_delta(k2, Log(h))
                              = Ok([data |-> written.data, base |-> None,
                                    key |-> k2])
                       /\ get_meta(k2, Log(h)) = Ok(written.metadata)
                       /\ get_missing(<< k2 >>, Log(h)) = Ok(<<>>)

C17_Witness ==
    /\ isOpen["w"]
    /\ VisibleRecs("w") = << Rec(KeyA1, << 1, 2, 3, 4 >>, MetaSize) >>
    /\ get_delta(KeyB1, Log("w"))
           = Ok([data |-> << 1, 2, 3, 4 >>, base |-> None, key |-> KeyB1])
    /\ get_meta(KeyB1, Log("w")) = Ok(MetaSize)
    /\ get_missing(<< KeyB1, KeyB2 >>, Log("w")) = Ok(<< KeyB2 >>)

(***************************************************************************)
(* The Python datapack and historypack objects.  Each keeps its pack in a  *)
(* PyOptionalRefCell: get_value borrows the pack and fails when the cell   *)
(* is empty, take_value moves the pack out and leaves the cell empty.      *)
(* Every method but cleanup borrows the pack and then runs the pack's      *)
(* operation, which can itself fail (inner is its result); markledger      *)
(* does nothing for a looseonly repack.                                    *)
(***************************************************************************)
get_value(c) == IF c = None THEN Err("Empty") ELSE Ok(c[1])
take_value(c) ==
    [res |-> IF c = None THEN Err("Empty") ELSE Ok(c[1]), cell |-> None]

InnerResults == { Ok("done"), Err("Inner") }

\* What a method returns, whether it used the pack, and the cell after it.
Outcome(res, touched, c) == [res |-> res, touched |-> touched, cell |-> c]

with_store(c, inner) ==
    LET store == get_value(c) IN
    IF ~store.ok THEN Outcome(store, FALSE, c) ELSE Outcome(inner, TRUE, c)

markledger(c, looseonly, inner) ==
    IF ~looseonly
    THEN LET store == get_value(c) IN
         IF ~store.ok THEN Outcome(store, FALSE, c)
         ELSE IF ~inner.ok THEN Outcome(inner, TRUE, c)
         ELSE Outcome(Ok("None"), TRUE, c)
    ELSE Outcome(Ok("None"), FALSE, c)

datapack_cleanup_borrowing(c, inner) ==
    LET store == get_value(c) IN
    IF ~store.ok THEN Outcome(store, FALSE, c)
    ELSE IF ~inner.ok THEN Outcome(inner, TRUE, c)
    ELSE Outcome(Ok("None"), TRUE, c)

datapack_cleanup(c, inner) ==
    LET datapack == take_value(c) IN
    IF ~datapack.res.ok THEN Outcome(datapack.res, FALSE, datapack.cell)
    ELSE IF ~inner.ok THEN Outcome(inner, TRUE, datapack.cell)
    ELSE Outcome(Ok("None"), TRUE, datapack.cell)

historypack_cleanup(c, inner) ==
    LET historypack == take_value(c) IN
    IF ~historypack.res.ok
    THEN Outcome(historypack.res, FALSE, historypack.cell)
    ELSE IF ~inner.ok THEN Outcome(inner, TRUE, historypack.cell)
    ELSE Outcome(Ok("None"), TRUE, historypack.cell)

Borrowing(o) ==
    IF o = "datapack"
    THEN { "path", "packpath", "indexpath", "get", "getdelta",
           "getdeltachain", "getmeta", "getmissing", "iterentries" }
    ELSE { "path", "packpath", "indexpath", "getancestors", "getmissing",
           "getnodeinfo", "iterentries" }
Methods(o) == Borrowing(o) \cup { "markledger", "cleanup" }

CallOutcome(o, method, looseonly, inner) ==
    IF method = "cleanup"
    THEN IF o = "datapack" THEN datapack_cleanup(cell[o], inner)
         ELSE historypack_cleanup(cell[o], inner)
    ELSE IF method = "markledger" THEN markledger(cell[o], looseonly, inner)
    ELSE with_store(cell[o], inner)

\* Python calls a method of the object o.
Call(o, method, looseonly, inner) ==
    /\ method \in Methods(o)
    /\ looseonly => method = "markledger"
    /\ LET r == CallOutcome(o, method, looseonly, inner) IN
       /\ cell' = [cell EXCEPT ![o] = r.cell]
       /\ last' = [op |-> "call", o |-> o, method |-> method,
                   looseonly |-> looseonly, res |-> r.res,
                   touched |-> r.touched]
    /\ UNCHANGED logVars
    /\ UNCHANGED << shards, shardRecs, dirents, packs >>

NextPyPack ==
    \E o \in PyPacks, method \in Methods("datapack") \cup Methods("historypack"),
       looseonly \in BOOLEAN, inner \in InnerResults :
        Call(o, method, looseonly, inner)

SpecPyPack == Init /\ [][NextPyPack]_vars

(***************************************************************************)
(* C18. Lifecycle of the Python datapack and historypack objects: cleanup  *)
(* takes the pack out of the cell before it runs the pack's cleanup, so    *)
(* after any call of cleanup, whether the inner cleanup succeeded or       *)
(* failed, the cell is empty; every later call on the object (a markledger *)
(* of a looseonly repack aside) returns an error without touching the      *)
(* pack; and nothing refills the cell.                                     *)
(***************************************************************************)
C18_Step ==
    /\ \A o \in PyPacks : cell[o] = None => cell'[o] = None
    /\ last'.op = "call" =>
           /\ last'.method = "cleanup" => cell'[last'.o] = None
           /\ (cell[last'.o] = None
                  /\ ~(last'.method = "markledger" /\ last'.looseonly)) =>
                  (~last'.res.ok /\ ~last'.touched)
           /\ \A o \in PyPacks : o # last'.o => cell'[o] = cell[o]

C18_CleanupEmptiesCell == [][C18_Step]_vars

C18_Witness ==
    /\ last.op = "call" /\ last.o = "datapack" /\ last.method = "cleanup"
    /\ last.res = Err("Inner") /\ last.touched
    /\ cell["datapack"] = None
    /\ cell["historypack"] # None
    /\ ~with_store(cell["datapack"], Ok("done")).res.ok

(***************************************************************************)
(* The store with keys whose path is long: add takes any Key, and          *)
(* write_to_log writes the length of the path as a u16.                    *)
(***************************************************************************)
PathLens == { 1, 65535, 65536, 65537 }
LongPath(n) == [i \in 1..n |-> 97]
LongDeltas ==
    { [key |-> Key(LongPath(n), Node1), base |-> None, data |-> << 9 >>] :
          n \in PathLens }

NextLongPath ==
    \/ \E h \in Writers : Open(h)
    \/ \E h \in Writers, delta \in LongDeltas, metadata \in Metadatas :
           Add(h, delta, metadata)
    \/ \E h \in Writers : Close(h)

SpecLongPath == Init /\ [][NextLongPath]_vars

(***************************************************************************)
(* C19. For every key add accepts, whatever the length of its path         *)
(* (lengths above 65535 included), the 16-bit path_len written into the    *)
(* entry is the number of path bytes written right after it, so the        *)
(* reader's skip of path_len bytes lands on the start of the serialized    *)
(* metadata: add stores a consistent entry or rejects the key, and never   *)
(* writes the length modulo 2^16.                                          *)
(***************************************************************************)
C19_PathLenIsPathLength ==
    \A h \in Handles :
        \A i \in 1..Len(dirty[h]) :
            LET buf == dirty[h][i]
                written == pendingRecs[h][i]
                path_len == ReadU16(buf, NodeLen)
            IN /\ path_len = Ok(Len(written.key.path))
               /\ Slice(buf, NodeLen + 2, path_len.val) = written.key.path
               /\ LET m == MetadataRead(buf, NodeLen + 2 + path_len.val) IN
                  m.ok /\ m.val.metadata = written.metadata
               /\ get_meta(written.key, << buf >>) = Ok(written.metadata)

====
